---------------------------- MODULE Spec2Model ----------------------------
(***************************************************************************)
(* A model of gaia_isochrones: the catalog lookup (get_gaia_data), the     *)
(* model fit (fit_gaia_data, with its loglike callback) and the batch      *)
(* driver (run_fit under multiprocessing.Pool.imap_unordered).             *)
(*                                                                         *)
(* Floating point.  A float is a record [k, v]: k = "fin" with the value   *)
(* v on an integer grid, k = "nan", or k = "inf" with v the sign.  The     *)
(* grids are                                                               *)
(*   parallax, parallax error : 0.001 mas     (0.082 is 82, 0.033 is 33)   *)
(*   magnitude                : 0.01 mag      (12.0 is 1200)               *)
(*   magnitude error          : e^-5 mag      (about 6.7 mmag)             *)
(*   error variance           : e^-10 mag^2   (exp(-10) is 1)              *)
(*   distance                 : 1 pc                                       *)
(*   log-jitter, 2 log(err)   : 1 nat                                      *)
(* A log-probability is a wide float [k, hi, lo] of value hi*10^9 + lo     *)
(* nats, so that the floor -1e10 is representable.                         *)
(***************************************************************************)
EXTENDS Integers, Sequences, FiniteSets, TLC

\* ------------------------------------------------------------------ floats

Fin(n) == [k |-> "fin", v |-> n]
NaN == [k |-> "nan", v |-> 0]
PInf == [k |-> "inf", v |-> 1]
NInf == [k |-> "inf", v |-> -1]

\* np.isfinite
IsFinite(x) == x.k = "fin"

Abs(n) == IF n < 0 THEN -n ELSE n

Sign(n) == IF n > 0 THEN 1 ELSE IF n < 0 THEN -1 ELSE 0

\* x + y
FAdd(x, y) ==
    IF x.k = "nan" \/ y.k = "nan" THEN NaN
    ELSE IF x.k = "inf" /\ y.k = "inf" THEN (IF x.v = y.v THEN x ELSE NaN)
    ELSE IF x.k = "inf" THEN x
    ELSE IF y.k = "inf" THEN y
    ELSE Fin(x.v + y.v)

\* x - y
FSub(x, y) == FAdd(x, IF y.k = "nan" THEN NaN ELSE [k |-> y.k, v |-> -y.v])

\* np.abs
FAbs(x) ==
    IF x.k = "nan" THEN NaN
    ELSE IF x.k = "inf" THEN PInf
    ELSE Fin(IF x.v < 0 THEN -x.v ELSE x.v)

\* x < y : any comparison with NaN is False
FLt(x, y) ==
    IF x.k = "nan" \/ y.k = "nan" THEN FALSE
    ELSE IF x.k = "inf" /\ y.k = "inf" THEN x.v < y.v
    ELSE IF x.k = "inf" THEN x.v < 0
    ELSE IF y.k = "inf" THEN y.v > 0
    ELSE x.v < y.v

\* x > y
FGt(x, y) == FLt(y, x)

\* x ** 2
FSquare(x) ==
    IF x.k = "nan" THEN NaN
    ELSE IF x.k = "inf" THEN PInf
    ELSE Fin(x.v * x.v)

\* The integer square root of n, known to lie in lo..hi, by bisection.
RECURSIVE ISqrtIn(_, _, _)
ISqrtIn(n, lo, hi) ==
    IF lo = hi THEN lo
    ELSE LET mid == (lo + hi + 1) \div 2
         IN IF mid * mid <= n THEN ISqrtIn(n, mid, hi)
            ELSE ISqrtIn(n, lo, mid - 1)

\* np.sqrt, rounded down to the grid
FSqrt(x) ==
    IF x.k = "nan" THEN NaN
    ELSE IF x.k = "inf" THEN (IF x.v > 0 THEN PInf ELSE NaN)
    ELSE IF x.v < 0 THEN NaN
    ELSE Fin(ISqrtIn(x.v, 0, 46340))

\* The quotient of two integers rounded toward zero.
Quot(a, b) == Sign(a) * Sign(b) *
              ((IF a < 0 THEN -a ELSE a) \div (IF b < 0 THEN -b ELSE b))

\* What a Python float division leaves in place of a value when it raises.
ZeroDivisionError == [k |-> "ZeroDivisionError", v |-> 0]

\* Python's float / float, the quotient on the grid 1/one.  Dividing by zero
\* raises ZeroDivisionError (numpy would give inf or nan; these operands
\* went through float()).
PyDiv(x, y, one) ==
    IF y.k = "fin" /\ y.v = 0 THEN ZeroDivisionError
    ELSE IF x.k = "nan" \/ y.k = "nan" THEN NaN
    ELSE IF x.k = "inf" /\ y.k = "inf" THEN NaN
    ELSE IF x.k = "inf" THEN [k |-> "inf", v |-> x.v * Sign(y.v)]
    ELSE IF y.k = "inf" THEN Fin(0)
    ELSE Fin(Quot(x.v * one, y.v))

\* ------------------------------------------------------------ get_gaia_data

Bands == <<"G", "BP", "RP">>

\* Parallax zero-point offset, 0.082 mas.
PlxOffset == 82
\* Systematic parallax error added in quadrature, 0.033 mas.
PlxSysErr == 33
\* factor = 2.5 / np.log(10) = 1.0857 mag = 161.14 e^-5 mag, in hundredths.
FactorCenti == 16114
\* The default of mag_tol, 1.0 mag.
DefaultMagTol == 100
\* The numerator of the distance bound, 2000 / plx with plx in mas, and its
\* lower clip, in pc.
MaxDistNum == 2000
MinMaxDist == 100

None == [given |-> FALSE, v |-> Fin(0)]
Some(x) == [given |-> TRUE, v |-> x]

\* WithinTol without the absolute value.
WithinTolNoAbs(g, approx_mag, mag_tol) == FLt(FSub(g, approx_mag), mag_tol)

\* np.abs(r["phot_g_mean_mag"] - approx_mag) < mag_tol, for one row
WithinTol(g, approx_mag, mag_tol) ==
    FLt(FAbs(FSub(g, approx_mag)), mag_tol)

\* FilterRows with the filter left out.
FilterRowsOff(r, approx_mag, mag_tol) == r

\* if approx_mag is not None: r = r[...]
FilterRows(r, approx_mag, mag_tol) ==
    IF approx_mag.given
    THEN LET Keep(row) == WithinTol(row.mag["G"], approx_mag.v, mag_tol)
         IN SelectSeq(r, Keep)
    ELSE r

\* plx = r["parallax"] + 0.082
CorrectedParallax(row) == FAdd(row.parallax, Fin(PlxOffset))

\* plx_err = np.sqrt(r["parallax_error"] ** 2 + 0.033 ** 2)
InflatedParallaxError(row) ==
    FSqrt(FAdd(FSquare(row.parallax_error), Fin(PlxSysErr * PlxSysErr)))

\* err = flux_error; err /= flux; err *= factor
MagError(row, band) ==
    LET q == PyDiv(row.flux_error[band], row.flux[band], 10000)
    IN IF q = ZeroDivisionError THEN q
       ELSE IF q.k = "fin" THEN Fin(Quot(q.v * FactorCenti, 1000000))
       ELSE q

Raise(exc, msg) == [status |-> exc, msg |-> msg, value |-> <<>>]
Return(value) == [status |-> "return", msg |-> "", value |-> value]

\* The loop over the bands, from the i-th on; params holds the bands done.
RECURSIVE BandLoop(_, _, _)
BandLoop(row, i, params) ==
    IF i > Len(Bands) THEN Return(params)
    ELSE LET band == Bands[i]
             mag == row.mag[band]
             err == MagError(row, band)
         IN IF err = ZeroDivisionError
            THEN Raise("ZeroDivisionError", "float division by zero")
            ELSE IF ~(IsFinite(mag) /\ IsFinite(err))
            THEN Raise("ValueError", "non finite params")
            ELSE BandLoop(row, i + 1, (band :> <<mag, err>>) @@ params)

\* MaxDistance without the clip.
MaxDistanceNoClip(plx) == Fin((MaxDistNum * 1000) \div plx.v)

\* np.clip(2000 / plx, 100, np.inf), for plx > 0
MaxDistance(plx) ==
    LET d == (MaxDistNum * 1000) \div plx.v
    IN Fin(IF d < MinMaxDist THEN MinMaxDist ELSE d)

\* if params["parallax"][0] > 0: params["max_distance"] = ...
WithMaxDistance(params) ==
    IF FGt(params["parallax"][1], Fin(0))
    THEN ("max_distance" :> <<MaxDistance(params["parallax"][1])>>) @@ params
    ELSE params

\* MergeKwargs with the computed fields winning: dict(kwargs, **params).
MergeKwargsComputedWin(params, kwargs) == params @@ kwargs

\* dict(params, **kwargs)
MergeKwargs(params, kwargs) == kwargs @@ params

\* get_gaia_data, given the rows the cone search returned.
GetGaiaData(r, approx_mag, mag_tol, kwargs) ==
    LET kept == FilterRows(r, approx_mag, mag_tol)
    IN IF Len(kept) = 0 THEN Raise("ValueError", "no matches found")
       ELSE
       LET row == kept[1]
           plx == CorrectedParallax(row)
           plx_err == InflatedParallaxError(row)
       IN IF ~(IsFinite(plx) /\ IsFinite(plx_err))
          THEN Raise("ValueError", "non finite parallax")
          ELSE
          LET bands == BandLoop(row, 1, <<>>)
          IN IF bands.status # "return" THEN bands
             ELSE Return(MergeKwargs(
                     WithMaxDistance(("parallax" :> <<plx, plx_err>>)
                                     @@ bands.value),
                     kwargs))

\* ---------------------------------------------------- wide floats (loglike)

Giga == 10^9

WFinite(hi, lo) == [k |-> "fin", hi |-> hi, lo |-> lo]
WNaN == [k |-> "nan", hi |-> 0, lo |-> 0]
WPInf == [k |-> "inf", hi |-> 1, lo |-> 0]
WNInf == [k |-> "inf", hi |-> -1, lo |-> 0]

\* A float of the narrow grid as a log-probability.
Widen(x) ==
    IF x.k = "nan" THEN WNaN
    ELSE IF x.k = "inf" THEN (IF x.v > 0 THEN WPInf ELSE WNInf)
    ELSE WFinite(x.v \div Giga, x.v % Giga)

\* - (hi * 10^9 + lo), for hi, lo >= 0
WNegative(hi, lo) ==
    IF lo = 0 THEN WFinite(-hi, 0) ELSE WFinite(-hi - 1, Giga - lo)

\* x + y
WAdd(x, y) ==
    IF x.k = "nan" \/ y.k = "nan" THEN WNaN
    ELSE IF x.k = "inf" /\ y.k = "inf" THEN (IF x.hi = y.hi THEN x ELSE WNaN)
    ELSE IF x.k = "inf" THEN x
    ELSE IF y.k = "inf" THEN y
    ELSE LET lo == x.lo + y.lo
         IN WFinite(x.hi + y.hi + lo \div Giga, lo % Giga)

\* x < y
WLt(x, y) ==
    IF x.k = "nan" \/ y.k = "nan" THEN FALSE
    ELSE IF x.k = "inf" /\ y.k = "inf" THEN x.hi < y.hi
    ELSE IF x.k = "inf" THEN x.hi < 0
    ELSE IF y.k = "inf" THEN y.hi > 0
    ELSE x.hi < y.hi \/ (x.hi = y.hi /\ x.lo < y.lo)

\* np.isfinite
WIsFinite(x) == x.k = "fin"

\* The floor of the log-likelihood, -1e10.
LogLikeFloor == WFinite(-10, 0)

\* np.clip(lp, -1e10, np.inf): NaN stays NaN
ClipBelow(lp) == IF WLt(lp, LogLikeFloor) THEN LogLikeFloor ELSE lp

\* ------------------------------------------------- the model and the sampler

\* jitter_vars
jitter_vars == <<"G", "BP", "RP">>

\* mod.param_names of the single-star model: the native parameters.
param_names == <<"eep", "age", "feh", "distance", "AV">>

\* mod.n_params
n_params == Len(param_names)

\* round(e^n) for n = 0..20: np.exp(theta) in units of e^-10.
ExpTable ==
    <<1, 3, 7, 20, 55, 148, 403, 1097, 2981, 8103, 22026, 59874, 162755,
      442413, 1202604, 3269017, 8886111, 24154953, 65659969, 178482301,
      485165195>>

\* np.exp of a log-jitter in [-10, 10], a variance in units of e^-10 mag^2
FExp(theta) == Fin(ExpTable[theta + 11])

\* ceil(e^n) for n = 1..21: e^n <= v iff CeilExpTable[n] <= v.
CeilExpTable ==
    <<3, 8, 21, 55, 149, 404, 1097, 2981, 8104, 22027, 59875, 162755, 442414,
      1202605, 3269018, 8886111, 24154953, 65659970, 178482301, 485165196,
      1318815735>>

\* floor(ln v), for an integer v >= 1
FloorLn(v) == Cardinality({ n \in 1..Len(CeilExpTable) : CeilExpTable[n] <= v })

\* 2 * np.log(err), in nats, err being in units of e^-5 mag
TwoLog(err) ==
    IF err.k = "nan" THEN NaN
    ELSE IF err.k = "inf" THEN (IF err.v > 0 THEN PInf ELSE NaN)
    ELSE IF err.v < 0 THEN NaN
    ELSE IF err.v = 0 THEN NInf
    ELSE Fin(FloorLn(err.v * err.v) - 10)

\* err = np.sqrt(gaia_data[k][1] ** 2 + np.exp(theta[ind0 + i]))
InflatedError(orig_err, log_jitter) ==
    FSqrt(FAdd(FSquare(orig_err), FExp(log_jitter)))

\* The distance modulus 5 log10(d / 10 pc) of the distances of the model, in
\* 0.01 mag.
DistanceModulus(d) ==
    IF d = 10 THEN 0 ELSE IF d = 100 THEN 500 ELSE IF d = 1000 THEN 1000
    ELSE 1349

\* The magnitude the isochrone gives in a band: the absolute magnitude at
\* the eep, the distance modulus and the extinction.
ModelMag(band, native) ==
    LET absmag == IF band = "G" THEN 480 ELSE IF band = "BP" THEN 510 ELSE 420
    IN absmag + DistanceModulus(native[4]) + native[5]

\* One Gaussian term -(value - model)^2 / err^2 of the model's likelihood,
\* as a non-negative wide float to subtract; pull is |value - model| / err.
ChiSquare(pull) ==
    IF pull < 30000 THEN [hi |-> 0, lo |-> pull * pull]
    ELSE LET k == pull \div 1000
         IN [hi |-> (k * k) \div 1000, lo |-> ((k * k) % 1000) * 1000000]

\* mod.lnpost(theta[:mod.n_params]) of the isochrones model, read off the
\* model's kwargs: -inf outside the support of the prior (distance, and the
\* max_distance bound), NaN where the isochrone grid has no such eep, else
\* the Gaussian log-likelihood of the parallax and the three magnitudes.
LnPost(native, kwargs) ==
    LET distance == native[4]
        plx == kwargs["parallax"]
        band_err(b) == kwargs[b][2]
        bad == \E i \in 1..Len(Bands) :
                 ~IsFinite(kwargs[Bands[i]][1]) \/ ~IsFinite(band_err(Bands[i]))
                 \/ band_err(Bands[i]).v = 0
    IN IF distance <= 0 THEN WNInf
       ELSE IF "max_distance" \in DOMAIN kwargs
               /\ FGt(Fin(distance), kwargs["max_distance"][1]) THEN WNInf
       ELSE IF native[1] > 1700 THEN WNaN
       ELSE IF bad \/ ~IsFinite(plx[1]) \/ ~IsFinite(plx[2]) \/ plx[2].v = 0
       THEN WNaN
       ELSE
       LET plx_pull == Abs(plx[1].v - 1000000 \div distance) \div plx[2].v
           plx_term == ChiSquare(plx_pull)
           band_term(b) ==
               \* 0.01 mag over e^-5 mag
               (Abs(kwargs[b][1].v - ModelMag(b, native)) * 148)
                   \div (100 * band_err(b).v)
           bands == ChiSquare(band_term("G")).lo + ChiSquare(band_term("BP")).lo
                    + ChiSquare(band_term("RP")).lo
       IN WAdd(WNegative(plx_term.hi, plx_term.lo), WNegative(0, bands))

\* The body of loglike's loop for jitter_vars[i..], lines 122-125: st holds
\* the heap (the dictionaries) and lp0 so far.
RECURSIVE JitterLoop(_, _, _, _, _)
JitterLoop(i, theta, gaia_data, kwargs, st) ==
    IF i > Len(jitter_vars) THEN st
    ELSE LET k == jitter_vars[i]
             ind0 == n_params
             err == InflatedError(st.heap[gaia_data][k][2], theta[ind0 + i])
             lp0 == FSub(st.lp0, TwoLog(err))
             heap == [st.heap EXCEPT
                        ![kwargs] = (k :> <<st.heap[gaia_data][k][1], err>>)
                                    @@ st.heap[kwargs]]
         IN JitterLoop(i + 1, theta, gaia_data, kwargs,
                       [heap |-> heap, lp0 |-> lp0])

\* LogLike without the test of np.isfinite(lp).
LogLikeReturnUnchecked(lp) == ClipBelow(lp)

\* if np.isfinite(lp): return np.clip(lp, -1e10, np.inf); return -1e10
LogLikeReturn(lp) ==
    IF WIsFinite(lp) THEN ClipBelow(lp) ELSE LogLikeFloor

\* loglike(theta), with gaia_data and mod.kwargs the dictionaries at these
\* two places of the heap: the heap after the call, lp and the value
\* returned.
LogLike(theta, gaia_data, kwargs, heap0) ==
    LET st == JitterLoop(1, theta, gaia_data, kwargs,
                         [heap |-> heap0, lp0 |-> Fin(0)])
        lp == WAdd(Widen(st.lp0),
                   LnPost(SubSeq(theta, 1, n_params), st.heap[kwargs]))
    IN [heap |-> st.heap, lp |-> lp, value |-> LogLikeReturn(lp)]

\* mod.mnest_prior(cube[:mod.n_params], None, None): the native part of the
\* unit cube (in halves) to the native parameters, by the model's priors.
MnestPrior(cube) ==
    << 200 + 800 * cube[1],
       900 + 50 * cube[2],
       -50 + 50 * cube[3],
       IF cube[4] = 0 THEN 0 ELSE IF cube[4] = 1 THEN 100 ELSE 1000,
       0 + 50 * cube[5] >>

\* prior_transform(u), u in halves of the unit interval
PriorTransform(u) ==
    MnestPrior(SubSeq(u, 1, n_params))
    \o [i \in 1..(Len(u) - n_params) |-> -10 + (20 * u[n_params + i]) \div 2]

\* ------------------------------------------------------------------- state

VARIABLES
    lookup,     \* the call of get_gaia_data: its arguments and outcome
    fit,        \* the call of fit_gaia_data: its place, arguments and outcome
    fs,         \* the files of output_dir/version/name, by file name
    heap,       \* the dictionaries: gaia_data and the model's kwargs
    mod,        \* the isochrones model: kwargs, _samples, _derived_samples
    sampler,    \* the nested sampler: its calls of loglike and its results
    datasets,   \* the batch: the arguments of run_fit, one per star
    threads,    \* the number of processes of the pool
    jobs,       \* each star's run_fit: its state, exception and files
    results,    \* the jobs done, in the order the pool hands them to main
    main        \* the loop over pool.imap_unordered: its state, the bar

fitVars == <<fit, fs, heap, mod, sampler>>
batchVars == <<datasets, threads, jobs, results, main>>
vars == <<lookup, fit, fs, heap, mod, sampler,
          datasets, threads, jobs, results, main>>

\* No batch.
NoBatch ==
    /\ datasets = <<>> /\ threads = 0 /\ jobs = <<>> /\ results = <<>>
    /\ main = [state |-> "idle", bar |-> 0]

\* No call of get_gaia_data.
NoLookup ==
    [returned |-> FALSE, r |-> <<>>, approx_mag |-> None,
     mag_tol |-> Fin(DefaultMagTol), kwargs |-> <<>>, kept |-> <<>>,
     out |-> Raise("", "")]

\* ------------------------------------------------------------ fit_gaia_data

\* The most rows of the sampler's results.
MaxSamples == 2
\* The most calls of loglike in one run of the sampler.
MaxCalls == 2

NoFit == [pc |-> "idle", clobber |-> FALSE, gaia_data |-> 0, given |-> <<>>,
          existed |-> FALSE, out |-> Raise("", "")]
NoModel == [kwargs |-> 0, _samples |-> <<>>, _derived_samples |-> <<>>]
NoSampler == [invoked |-> FALSE, ncall |-> 0, theta |-> <<>>,
              previous |-> <<>>, lp |-> WNaN,
              value |-> WNaN, results |-> <<>>]

\* The dictionaries a caller may pass as gaia_data: a catalog record, one
\* with a parallax far off at a tiny error, and one with an error that is
\* not a number.
GaiaRecords ==
    LET rec == ("G" :> <<Fin(1000), Fin(1)>>) @@ ("BP" :> <<Fin(1030), Fin(2)>>)
               @@ ("RP" :> <<Fin(940), Fin(3)>>)
               @@ ("parallax" :> <<Fin(10000), Fin(55)>>)
               @@ ("max_distance" :> <<Fin(200)>>)
    IN { rec,
         [rec EXCEPT !["parallax"] = <<Fin(900000), Fin(1)>>,
                     !["max_distance"] = <<Fin(5000)>>],
         [rec EXCEPT !["BP"] = <<Fin(1030), NaN>>] }

\* The points of the unit cube (in halves) the sampler draws.
Cubes ==
    { native \o jitter :
        native \in { <<1, 1, 1, 1, 0>>, <<1, 1, 1, 2, 0>>, <<2, 1, 1, 1, 0>> },
        jitter \in { <<0, 0, 0>>, <<0, 1, 2>> } }

\* The points that may be rows of the sampler's results.
LiveCubes == { <<1, 1, 1, 1, 0, 0, 0, 0>>, <<1, 1, 1, 2, 0, 0, 1, 2>> }

\* NewKwargs keeping the caller's dictionary itself.
SameKwargs(gaia_data) == gaia_data

\* The dictionary the model keeps as mod.kwargs: SingleStarModel(mist,
\* **gaia_data) builds a new one from the items of gaia_data.
NewKwargs(gaia_data) == gaia_data + 1

\* The test of line 99 without the negation of clobber.
ShortCircuitNoNot(clobber, exists) == clobber /\ exists

\* (not clobber) and os.path.exists(fn)
ShortCircuit(clobber, exists) == (~clobber) /\ exists

\* The column of a sample set.
Column(samples, name) ==
    LET at == CHOOSE i \in 1..Len(param_names) : param_names[i] = name
    IN [row \in 1..Len(samples) |-> samples[row][at]]

\* mod._derived_samples, lines 155-158: the model's physical quantities of
\* every row (mod.ic, here the eep it was given), parallax = 1000 / distance,
\* distance and AV.
Derived(samples) ==
    [row \in 1..Len(samples) |->
        [eep |-> Column(samples, "eep")[row],
         parallax |-> 1000000 \div Column(samples, "distance")[row],
         distance |-> Column(samples, "distance")[row],
         AV |-> Column(samples, "AV")[row]]]

\* DataFrame.to_hdf(fn, key): the file is made if absent, the table
\* replaced if present, the other tables kept.
ToHdf(files, fn, key, table) ==
    (fn :> ((key :> table) @@ (IF fn \in DOMAIN files THEN files[fn] ELSE <<>>)))
    @@ files

\* open(path, "w") and a dump: the file is made or replaced.
WriteFile(files, path, content) == (path :> content) @@ files

\* fit_gaia_data(name, gaia_data, clobber, output_dir), lines 87-99: the
\* model is built, the directory made, and the samples file looked for.
FitCall ==
    /\ fit.pc \in {"idle", "done"}
    /\ \E clobber \in BOOLEAN, gaia_data \in GaiaRecords :
         LET exists == "star.h5" \in DOMAIN fs
         IN /\ fit' = [pc |-> IF ShortCircuit(clobber, exists)
                              THEN "load" ELSE "dump_gaia",
                       clobber |-> clobber, gaia_data |-> 1,
                       given |-> gaia_data, existed |-> exists,
                       out |-> Raise("", "")]
            /\ heap' = (1 :> gaia_data) @@ (2 :> gaia_data)
            /\ mod' = [NoModel EXCEPT !.kwargs = NewKwargs(1)]
    /\ sampler' = NoSampler
    /\ UNCHANGED <<lookup, fs>>
    /\ UNCHANGED batchVars

\* Lines 100-102: the saved sample sets are read into the model, which is
\* returned; pd.read_hdf raises KeyError for a table the file lacks.
LoadSaved ==
    /\ fit.pc = "load"
    /\ IF {"samples", "derived_samples"} \subseteq DOMAIN fs["star.h5"]
       THEN /\ mod' = [mod EXCEPT
                         !._samples = fs["star.h5"]["samples"],
                         !._derived_samples = fs["star.h5"]["derived_samples"]]
            /\ fit' = [fit EXCEPT !.pc = "done", !.out = Return("Loaded")]
       ELSE /\ mod' = IF "samples" \in DOMAIN fs["star.h5"]
                      THEN [mod EXCEPT !._samples = fs["star.h5"]["samples"]]
                      ELSE mod
            /\ fit' = [fit EXCEPT !.pc = "done",
                         !.out = Raise("KeyError", "No object named in the file")]
    /\ UNCHANGED <<lookup, fs, heap, sampler>>
    /\ UNCHANGED batchVars

\* Lines 104-110: gaia.json.
DumpGaia ==
    /\ fit.pc = "dump_gaia"
    /\ fs' = WriteFile(fs, "gaia.json", heap[fit.gaia_data])
    /\ fit' = [fit EXCEPT !.pc = "sampler"]
    /\ UNCHANGED <<lookup, heap, mod, sampler>>
    /\ UNCHANGED batchVars

\* Lines 132-136: the sampler is made and run_nested entered.
NestedSampler ==
    /\ fit.pc = "sampler"
    /\ sampler' = [sampler EXCEPT !.invoked = TRUE]
    /\ fit' = [fit EXCEPT !.pc = "run_nested"]
    /\ UNCHANGED <<lookup, fs, heap, mod>>
    /\ UNCHANGED batchVars

\* The sampler draws a point u, and calls loglike(prior_transform(u)).
loglike ==
    /\ fit.pc = "run_nested"
    /\ sampler.ncall < MaxCalls
    /\ \E u \in Cubes :
         LET theta == PriorTransform(u)
             call == LogLike(theta, fit.gaia_data, mod.kwargs, heap)
         IN /\ heap' = call.heap
            /\ sampler' = [sampler EXCEPT
                             !.ncall = sampler.ncall + 1, !.theta = theta,
                             !.previous =
                                 IF sampler.theta = <<>> THEN <<>>
                                 ELSE SubSeq(sampler.theta, n_params + 1,
                                             Len(sampler.theta)),
                             !.lp = call.lp, !.value = call.value]
    /\ UNCHANGED <<lookup, fit, fs, mod>>
    /\ UNCHANGED batchVars

\* run_nested returns: sampler.results holds the weighted samples.
RunNested ==
    /\ fit.pc = "run_nested"
    /\ sampler.ncall > 0
    /\ \E n \in 1..MaxSamples :
         \E cubes \in [1..n -> LiveCubes] :
            sampler' = [NoSampler EXCEPT
                          !.invoked = TRUE,
                          !.results = [i \in 1..n |-> PriorTransform(cubes[i])]]
    /\ fit' = [fit EXCEPT !.pc = "resample"]
    /\ UNCHANGED <<lookup, fs, heap, mod>>
    /\ UNCHANGED batchVars

\* Lines 142-158: the results are resampled to equal weight, each row one
\* of the sampler's, and the derived samples computed.
Resample ==
    /\ fit.pc = "resample"
    /\ \E idx \in [1..Len(sampler.results) -> 1..Len(sampler.results)] :
         LET samples == [i \in 1..Len(sampler.results) |->
                            sampler.results[idx[i]]]
         IN mod' = [mod EXCEPT !._samples = samples,
                               !._derived_samples = Derived(samples)]
    /\ fit' = [fit EXCEPT !.pc = "save_samples"]
    /\ UNCHANGED <<lookup, fs, heap, sampler>>
    /\ UNCHANGED batchVars

\* Line 161: mod._samples.to_hdf(fn, "samples")
SaveSamples ==
    /\ fit.pc = "save_samples"
    /\ fs' = ToHdf(fs, "star.h5", "samples", mod._samples)
    /\ fit' = [fit EXCEPT !.pc = "save_derived"]
    /\ UNCHANGED <<lookup, heap, mod, sampler>>
    /\ UNCHANGED batchVars

\* Line 162: mod._derived_samples.to_hdf(fn, "derived_samples")
SaveDerived ==
    /\ fit.pc = "save_derived"
    /\ fs' = ToHdf(fs, "star.h5", "derived_samples", mod._derived_samples)
    /\ fit' = [fit EXCEPT !.pc = "save_summary"]
    /\ UNCHANGED <<lookup, heap, mod, sampler>>
    /\ UNCHANGED batchVars

\* Lines 165-184: star_summary.csv and star_sampling_summary.json are
\* written, and the model and the sampler handed to the caller.
SaveSummaries ==
    /\ fit.pc = "save_summary"
    /\ fs' = WriteFile(WriteFile(fs, "star_summary.csv", "describe"),
                       "star_sampling_summary.json", "summary")
    /\ fit' = [fit EXCEPT !.pc = "done", !.out = Return("Persisted")]
    /\ sampler' = [sampler EXCEPT !.results = <<>>]
    /\ UNCHANGED <<lookup, heap, mod>>
    /\ UNCHANGED batchVars

\* An exception of a library (the model, the sampler, the storage) or the
\* end of the process, at any step of the call: the call is over, what
\* was written stays, and the model and the sampler, local to the call, are
\* gone with it.
Fail ==
    /\ fit.pc \notin {"idle", "done"}
    /\ fit' = [fit EXCEPT !.pc = "done",
                          !.out = Raise("Exception", "propagated")]
    /\ mod' = [NoModel EXCEPT !.kwargs = mod.kwargs]
    /\ heap' = [heap EXCEPT ![mod.kwargs] = heap[fit.gaia_data]]
    /\ sampler' = [NoSampler EXCEPT !.invoked = sampler.invoked]
    /\ UNCHANGED <<lookup, fs>>
    /\ UNCHANGED batchVars

InitFit ==
    /\ lookup = NoLookup
    /\ fit = NoFit /\ fs = <<>> /\ heap = <<>>
    /\ mod = NoModel /\ sampler = NoSampler
    /\ NoBatch

NextFit ==
    \/ FitCall \/ LoadSaved \/ DumpGaia \/ NestedSampler \/ loglike
    \/ RunNested \/ Resample \/ SaveSamples \/ SaveDerived \/ SaveSummaries
    \/ Fail

SpecFit == InitFit /\ [][NextFit]_vars

\* ------------------------------------------------- the catalog and its rows

\* The longest cone-search result.
MaxRows == 2

GoodBand == [mag |-> Fin(1200), flux |-> Fin(1000), flux_error |-> Fin(10)]

\* What the catalog may hold for one band: magnitude, flux, flux error.
BandData ==
    { GoodBand,
      [mag |-> NaN, flux |-> NaN, flux_error |-> NaN],
      [mag |-> NaN, flux |-> Fin(1000), flux_error |-> Fin(10)],
      [mag |-> PInf, flux |-> Fin(0), flux_error |-> Fin(10)],
      [mag |-> Fin(1200), flux |-> Fin(1000), flux_error |-> NaN],
      [mag |-> Fin(1200), flux |-> Fin(1000), flux_error |-> PInf],
      [mag |-> Fin(1300), flux |-> Fin(500), flux_error |-> Fin(20)] }

Row(plx, plx_err, g, bp, rp) ==
    [parallax |-> plx, parallax_error |-> plx_err,
     mag |-> [b \in {"G", "BP", "RP"} |->
                IF b = "G" THEN g.mag ELSE IF b = "BP" THEN bp.mag ELSE rp.mag],
     flux |-> [b \in {"G", "BP", "RP"} |->
                IF b = "G" THEN g.flux ELSE IF b = "BP" THEN bp.flux ELSE rp.flux],
     flux_error |-> [b \in {"G", "BP", "RP"} |->
                IF b = "G" THEN g.flux_error
                ELSE IF b = "BP" THEN bp.flux_error ELSE rp.flux_error]]

Parallaxes ==
    { NaN, PInf, Fin(-500), Fin(-82), Fin(-81), Fin(918), Fin(19918),
      Fin(19919), Fin(39918) }
ParallaxErrors == { NaN, PInf, Fin(0), Fin(44), Fin(56) }

GMag(m) == [GoodBand EXCEPT !.mag = m]

\* Rows that differ in the parallax, in one band's photometry, or in the G
\* magnitude the filter reads.
Rows ==
    { Row(p, e, GoodBand, GoodBand, GoodBand) :
        p \in Parallaxes, e \in ParallaxErrors }
    \cup { Row(p, Fin(44), g, bp, GoodBand) :
        p \in {NaN, Fin(918)}, g \in BandData, bp \in BandData }
    \cup { Row(Fin(918), Fin(44), GoodBand, GoodBand, rp) : rp \in BandData }
    \cup { Row(Fin(918), Fin(44), GMag(m), GoodBand, GoodBand) :
        m \in {Fin(500), Fin(509), Fin(510), Fin(511), Fin(600), Fin(601)} }

\* The neighbours a cone search returns beside the row of interest.
Neighbours ==
    { Row(Fin(2000), Fin(44), GMag(m), GoodBand, GoodBand) :
        m \in {Fin(520), Fin(1500)} }

\* A cone-search result: at most MaxRows rows, one of them any row.
Catalogs ==
    { <<>> } \cup
    UNION { { [i \in 1..n |-> IF i = at THEN row ELSE others[i]] :
                row \in Rows, others \in [1..n -> Neighbours] } :
            n \in 1..MaxRows, at \in 1..MaxRows }

ApproxMags == { None, Some(Fin(500)), Some(Fin(1200)) }
MagTols == { Fin(DefaultMagTol), Fin(10) }

\* The extra keyword fields a caller may pass.
KwargSets ==
    { <<>>,
      ("Teff" :> <<Fin(5700), Fin(100)>>),
      ("G" :> <<Fin(900), Fin(3)>>),
      ("max_distance" :> <<Fin(7)>>) @@ ("parallax" :> <<Fin(1), Fin(1)>>) }

\* A call of get_gaia_data(coord, approx_mag, radius, mag_tol, **kwargs) about
\* to run, r being the rows the cone search at coord returns.
Call(r, approx_mag, mag_tol, kwargs) ==
    [returned |-> FALSE, r |-> r, approx_mag |-> approx_mag,
     mag_tol |-> mag_tol, kwargs |-> kwargs, kept |-> <<>>,
     out |-> Raise("", "")]

\* get_gaia_data runs to its return or its exception.
get_gaia_data ==
    /\ ~lookup.returned
    /\ UNCHANGED <<fit, fs, heap, mod, sampler>>
    /\ UNCHANGED batchVars
    /\ lookup' = [lookup EXCEPT
                    !.returned = TRUE,
                    !.kept = FilterRows(lookup.r, lookup.approx_mag,
                                        lookup.mag_tol),
                    !.out = GetGaiaData(lookup.r, lookup.approx_mag,
                                        lookup.mag_tol, lookup.kwargs)]

InitLookup ==
    /\ \E r \in Catalogs, approx_mag \in ApproxMags, mag_tol \in MagTols,
          kwargs \in KwargSets :
           lookup = Call(r, approx_mag, mag_tol, kwargs)
    /\ fit = NoFit /\ fs = <<>> /\ heap = <<>>
    /\ mod = NoModel /\ sampler = NoSampler
    /\ NoBatch

NextLookup == get_gaia_data

SpecLookup == InitLookup /\ [][NextLookup]_vars

\* ------------------------------------------------------- run_fit, the batch

\* The number of datasets of the batch.
NJobs == 3
\* The most processes of the pool.
MaxThreads == 2

\* The parameters of fit_gaia_data(name, gaia_data, clobber=False,
\* output_dir="."), and those with a default.
FitParameters == <<"name", "gaia_data", "clobber", "output_dir">>
FitDefaults == {"clobber", "output_dir"}

\* Python's binding of a call's arguments: the parameters left without a
\* value; a call that leaves one raises TypeError.
MissingArguments(parameters, defaults, npositional, keywords) ==
    { parameters[i] : i \in (npositional + 1)..Len(parameters) }
        \ (keywords \cup defaults)

\* What the catalog returns around the coordinates of a star of the batch.
JobRow(plx, g) == Row(plx, Fin(44), g, GoodBand, GoodBand)

\* The arguments of run_fit, by group: for "mann" a dataset with "ra",
\* "dec" and "mag" (the cone search at the coordinates returning r), for
\* "cks" a parsed record.
Groups == {"mann", "cks"}
Datasets(group) ==
    IF group = "mann"
    THEN { [ra |-> TRUE, mag |-> mag, r |-> r, gaia_data |-> <<>>] :
             mag \in {Fin(1200)},
             r \in { <<>>,
                     <<JobRow(Fin(918), GoodBand)>>,
                     <<JobRow(Fin(918), GMag(Fin(500)))>>,
                     <<JobRow(NaN, GoodBand)>>,
                     <<JobRow(Fin(918), [GoodBand EXCEPT !.mag = NaN])>> } }
    ELSE { [ra |-> FALSE, mag |-> Fin(0), r |-> <<>>, gaia_data |-> rec] :
             rec \in { rec \in GaiaRecords : IsFinite(rec["BP"][2]) } }

NoJob == [state |-> "queued", exc |-> "", fit_started |-> FALSE, files |-> {}]

\* run_fit(args), lines 95-114: what the job ends as.
RunFit(args) ==
    LET found == IF args.ra
                 THEN GetGaiaData(args.r, Some(args.mag), Fin(DefaultMagTol),
                                  <<>>)
                 ELSE Return(args.gaia_data)
        logs == {"stdout.log", "stderr.log"}
        \* fit_gaia_data(gaia_data, output_dir=output_dir)
        missing == MissingArguments(FitParameters, FitDefaults, 1,
                                    {"output_dir"})
    IN IF found.status = "ValueError"
       THEN [state |-> "skipped", exc |-> "", fit_started |-> FALSE,
             files |-> {}]
       ELSE IF found.status # "return"
       THEN [state |-> "raised", exc |-> found.status, fit_started |-> FALSE,
             files |-> {}]
       ELSE IF missing # {}
       THEN [state |-> "raised", exc |-> "TypeError", fit_started |-> FALSE,
             files |-> logs]
       ELSE [state |-> "returned", exc |-> "", fit_started |-> TRUE,
             files |-> logs \cup {"gaia.json", "star.h5", "star_summary.csv",
                                  "star_sampling_summary.json"}]

Running == { j \in DOMAIN jobs : jobs[j].state = "running" }
Queued == { j \in DOMAIN jobs : jobs[j].state = "queued" }

\* A free process of the pool takes the next task.
StartJob ==
    /\ main.state = "iterating"
    /\ Cardinality(Running) < threads
    /\ Queued # {}
    /\ LET j == CHOOSE j \in Queued : \A k \in Queued : j <= k
       IN jobs' = [jobs EXCEPT ![j].state = "running"]
    /\ UNCHANGED <<lookup, fitVars, datasets, threads, results, main>>

\* A process runs run_fit to its end; the result, or the exception, goes
\* to the pool's results.
run_fit ==
    /\ main.state = "iterating"
    /\ \E j \in Running :
         /\ jobs' = [jobs EXCEPT ![j] = RunFit(datasets[j])]
         /\ results' = Append(results, j)
    /\ UNCHANGED <<lookup, fitVars, datasets, threads, main>>

\* for _ in pool.imap_unordered(run_fit, datasets): bar.update(), for a
\* job that returned.
NextResult ==
    /\ main.state = "iterating"
    /\ results # <<>>
    /\ jobs[Head(results)].state # "raised"
    /\ results' = Tail(results)
    /\ main' = [main EXCEPT !.bar = main.bar + 1]
    /\ UNCHANGED <<lookup, fitVars, datasets, threads, jobs>>

\* The next result is an exception: imap_unordered raises it in main, and
\* leaving "with Pool" terminates the pool, whatever its processes run.
ReRaise ==
    /\ main.state = "iterating"
    /\ results # <<>>
    /\ jobs[Head(results)].state = "raised"
    /\ main' = [main EXCEPT !.state = "aborted"]
    /\ jobs' = [j \in DOMAIN jobs |->
                  IF jobs[j].state \in {"queued", "running"}
                  THEN [jobs[j] EXCEPT !.state = "killed"] ELSE jobs[j]]
    /\ results' = <<>>
    /\ UNCHANGED <<lookup, fitVars, datasets, threads>>

\* Every dataset was handed to main: the loop and the script end.
Finish ==
    /\ main.state = "iterating"
    /\ main.bar = Len(datasets)
    /\ main' = [main EXCEPT !.state = "finished"]
    /\ UNCHANGED <<lookup, fitVars, datasets, threads, jobs, results>>

InitBatch ==
    /\ lookup = NoLookup
    /\ fit = NoFit /\ fs = <<>> /\ heap = <<>>
    /\ mod = NoModel /\ sampler = NoSampler
    /\ \E group \in Groups : datasets \in [1..NJobs -> Datasets(group)]
    /\ threads \in 1..MaxThreads
    /\ jobs = [j \in 1..NJobs |-> NoJob]
    /\ results = <<>>
    /\ main = [state |-> "iterating", bar |-> 0]

NextBatch == StartJob \/ run_fit \/ NextResult \/ ReRaise \/ Finish

SpecBatch == InitBatch /\ [][NextBatch]_vars

\* ------------------------------------------------- claims on get_gaia_data

NoMatch(out) == out.status = "ValueError" /\ out.msg = "no matches found"
NonFiniteParallax(out) ==
    out.status = "ValueError" /\ out.msg = "non finite parallax"
NonFinitePhotometry(out) ==
    out.status = "ValueError" /\ out.msg = "non finite params"

\* The rows of the call whose G magnitude is strictly within the tolerance
\* (every row when no approx_mag is given).
Remaining(l) ==
    { i \in 1..Len(l.r) :
        l.approx_mag.given =>
            LET g == l.r[i].mag["G"]
            IN g.k = "fin" /\ Abs(g.v - l.approx_mag.v.v) < l.mag_tol.v }

\* C2: get_gaia_data fails with "no matches found", returning no record,
\* exactly when the cone search returned no row or the approx_mag filter
\* left none; with a row left it never fails with that error.
C2_NoMatchIffNoneRemain ==
    lookup.returned =>
        /\ NoMatch(lookup.out) <=> Remaining(lookup) = {}
        /\ NoMatch(lookup.out) => lookup.out.value = <<>>

\* C2 witness: rows came back, the filter discarded all of them, and the
\* call failed with "no matches found".
C2_Witness ==
    /\ lookup.returned /\ Len(lookup.r) > 0 /\ lookup.approx_mag.given
    /\ NoMatch(lookup.out)

RowsOf(seq) == { seq[i] : i \in 1..Len(seq) }

\* C3 as stated: with approx_mag given, a row is kept iff
\* |G - approx_mag| <= mag_tol.
C3_KeptIffWithinOrEqual ==
    (lookup.returned /\ lookup.approx_mag.given) =>
        \A i \in 1..Len(lookup.r) :
            LET g == lookup.r[i].mag["G"]
            IN lookup.r[i] \in RowsOf(lookup.kept) <=>
                 (g.k = "fin"
                  /\ Abs(g.v - lookup.approx_mag.v.v) <= lookup.mag_tol.v)

\* C3 amended: with approx_mag given, a row is kept iff
\* |G - approx_mag| < mag_tol; a row whose difference equals the tolerance
\* is discarded, as is a row whose G magnitude is not a number.
C3_KeptIffStrictlyWithin ==
    (lookup.returned /\ lookup.approx_mag.given) =>
        \A i \in 1..Len(lookup.r) :
            LET g == lookup.r[i].mag["G"]
            IN lookup.r[i] \in RowsOf(lookup.kept) <=>
                 (g.k = "fin"
                  /\ Abs(g.v - lookup.approx_mag.v.v) < lookup.mag_tol.v)

\* C3 witness: a row exactly mag_tol away from approx_mag was discarded
\* while another row was kept.
C3_Witness ==
    /\ lookup.returned /\ lookup.approx_mag.given
    /\ Len(lookup.kept) = 1 /\ Len(lookup.r) = 2
    /\ \E i \in 1..Len(lookup.r) :
          /\ lookup.r[i].mag["G"].k = "fin"
          /\ Abs(lookup.r[i].mag["G"].v - lookup.approx_mag.v.v)
               = lookup.mag_tol.v
          /\ lookup.r[i] \notin RowsOf(lookup.kept)

\* The row the call selected, when one remained.
Selected(l) == l.kept[1]

PhotometryNonFinite(row) ==
    \E i \in 1..Len(Bands) :
        \/ ~IsFinite(row.mag[Bands[i]])
        \/ ~IsFinite(MagError(row, Bands[i]))

RecordFinite(value) ==
    \A key \in {"G", "BP", "RP", "parallax"} :
        /\ key \in DOMAIN value
        /\ IsFinite(value[key][1]) /\ IsFinite(value[key][2])

\* C4 as stated: a returned record has finite G, BP, RP and parallax
\* pairs; a non-finite corrected parallax or inflated parallax error fails
\* with "non finite parallax", and (the parallax being finite) a non-finite
\* magnitude or magnitude error of any band fails with "non finite params".
C4_FiniteOrValueError ==
    (lookup.returned /\ Len(lookup.kept) > 0 /\ lookup.kwargs = <<>>) =>
        LET row == Selected(lookup)
            plxBad == ~(IsFinite(CorrectedParallax(row))
                        /\ IsFinite(InflatedParallaxError(row)))
        IN /\ lookup.out.status = "return" => RecordFinite(lookup.out.value)
           /\ plxBad => NonFiniteParallax(lookup.out)
           /\ (~plxBad /\ PhotometryNonFinite(row))
                 => NonFinitePhotometry(lookup.out)

\* C4, the part the code keeps: a returned record is finite, a non-finite
\* parallax fails with "non finite parallax", and non-finite photometry
\* never returns a record.
C4_FiniteOrRaises ==
    (lookup.returned /\ Len(lookup.kept) > 0 /\ lookup.kwargs = <<>>) =>
        LET row == Selected(lookup)
            plxBad == ~(IsFinite(CorrectedParallax(row))
                        /\ IsFinite(InflatedParallaxError(row)))
        IN /\ lookup.out.status = "return" => RecordFinite(lookup.out.value)
           /\ plxBad => NonFiniteParallax(lookup.out)
           /\ (~plxBad /\ PhotometryNonFinite(row))
                 => lookup.out.status \in {"ValueError", "ZeroDivisionError"}

ComputedKeys == {"G", "BP", "RP", "parallax", "max_distance"}

\* What the call computes before the extra fields are merged in.
Computed(l) == GetGaiaData(l.r, l.approx_mag, l.mag_tol, <<>>).value

\* C5 as stated: whatever extra fields the caller passed, every computed
\* key holds its computed value in the returned record.
C5_ComputedNeverOverridden ==
    (lookup.returned /\ lookup.out.status = "return") =>
        \A key \in ComputedKeys \cap DOMAIN Computed(lookup) :
            lookup.out.value[key] = Computed(lookup)[key]

\* C5 amended: the extra fields extend the record, and on a key collision
\* the caller's value replaces the computed one; every computed key the
\* caller did not pass holds its computed value.
C5_CallerWinsOnCollision ==
    (lookup.returned /\ lookup.out.status = "return") =>
        /\ DOMAIN lookup.out.value
             = DOMAIN Computed(lookup) \cup DOMAIN lookup.kwargs
        /\ \A key \in DOMAIN lookup.kwargs :
              lookup.out.value[key] = lookup.kwargs[key]
        /\ \A key \in DOMAIN Computed(lookup) \ DOMAIN lookup.kwargs :
              lookup.out.value[key] = Computed(lookup)[key]

\* C5 witness: the caller passed a field named like a computed one and the
\* call returned a record.
C5_Witness ==
    /\ lookup.returned /\ lookup.out.status = "return"
    /\ "G" \in DOMAIN lookup.kwargs

\* C6: a record returned to a caller who passed no extra fields holds
\* max_distance iff parallax + 0.082 > 0, and then max_distance is
\* max(100, 2000 / corrected parallax) (on the grid of 1 pc).
C6_MaxDistanceIffPositive ==
    (lookup.returned /\ lookup.out.status = "return" /\ lookup.kwargs = <<>>)
    => LET plx == Selected(lookup).parallax.v + PlxOffset
           value == lookup.out.value
       IN /\ "max_distance" \in DOMAIN value <=> plx > 0
          /\ plx > 0 =>
                LET md == value["max_distance"][1].v
                IN /\ value["max_distance"][1].k = "fin"
                   /\ md >= 100
                   /\ md * plx <= 2000000 \/ md = 100
                   /\ 2000000 < (md + 1) * plx

\* C6 witness: one record with the bound clipped to 100 pc.
C6_Witness ==
    /\ lookup.returned /\ lookup.out.status = "return"
    /\ lookup.kwargs = <<>>
    /\ Selected(lookup).parallax.v + PlxOffset > 20000
    /\ lookup.out.value["max_distance"][1] = Fin(100)

\* ------------------------------------------------- claims on fit_gaia_data

\* C1: in a call with clobber = False that found star.h5, the sampler is
\* never invoked, and the model the call returns holds the samples and the
\* derived samples of the file.
C1_ShortCircuitLoadsSaved ==
    (fit.pc # "idle" /\ ~fit.clobber /\ fit.existed) =>
        /\ ~sampler.invoked
        /\ fit.pc \in {"load", "done"}
        /\ fit.out.status = "return" =>
              /\ fit.out.value = "Loaded"
              /\ mod._samples = fs["star.h5"]["samples"]
              /\ mod._derived_samples = fs["star.h5"]["derived_samples"]

\* C1 witness: such a call returned a model with two rows of samples.
C1_Witness ==
    /\ fit.pc = "done" /\ ~fit.clobber /\ fit.existed
    /\ fit.out.status = "return" /\ Len(mod._samples) = 2

\* C8 as stated: between calls, a star.h5 that exists holds both tables,
\* and they are those of one completed run (the derived samples are those
\* of the samples).
C8_SamplesFileComplete ==
    (fit.pc \in {"idle", "done"} /\ "star.h5" \in DOMAIN fs) =>
        /\ DOMAIN fs["star.h5"] = {"samples", "derived_samples"}
        /\ fs["star.h5"]["derived_samples"]
             = Derived(fs["star.h5"]["samples"])

\* C8, the part the code keeps: a call ends only as Loaded, as Persisted
\* after the sampler ran, or with an exception; Persisted leaves both
\* tables of its run in the file.
C8_TerminalStates ==
    fit.pc = "done" =>
        \/ fit.out.status = "return" /\ fit.out.value = "Loaded"
           /\ ~sampler.invoked
        \/ fit.out.status = "return" /\ fit.out.value = "Persisted"
           /\ sampler.invoked
           /\ fs["star.h5"] = ("samples" :> mod._samples)
                               @@ ("derived_samples" :> mod._derived_samples)
        \/ fit.out.status \notin {"return", ""}

\* C9: the value loglike returns is finite and at least -1e10: it is -1e10
\* when lp is NaN or an infinity, and max(lp, -1e10) when lp is finite.
C9_LogLikeFiniteAboveFloor ==
    sampler.ncall > 0 =>
        /\ sampler.value.k = "fin"
        /\ sampler.value.hi >= -10
        /\ sampler.lp.k # "fin" => sampler.value = WFinite(-10, 0)
        /\ sampler.lp.k = "fin" =>
              sampler.value = IF sampler.lp.hi < -10 THEN WFinite(-10, 0)
                              ELSE sampler.lp

\* C9 witness: lp was NaN and loglike returned -1e10.
C9_Witness ==
    /\ sampler.ncall > 0 /\ sampler.lp.k = "nan"
    /\ sampler.value = WFinite(-10, 0)

\* The cases of C9 beside NaN: lp was -inf, and lp was finite under -1e10.
C9_ReachedNegInf == sampler.ncall > 0 /\ sampler.lp = WNInf
C9_ReachedBelowFloor ==
    sampler.ncall > 0 /\ sampler.lp.k = "fin" /\ sampler.lp.hi < -10
C9_ReachedAboveFloor ==
    sampler.ncall > 0 /\ sampler.lp.k = "fin" /\ sampler.lp.hi >= -10

\* C10: whatever loglike evaluated, gaia_data is the dictionary the caller
\* passed; after an evaluation the model's kwargs hold, for each band, the
\* magnitude and the error sqrt(original error^2 + exp(log-jitter)) of the
\* record as passed, and the value returned is that of an evaluation made
\* first.
C10_RecordUnchanged ==
    fit.pc # "idle" =>
        /\ heap[fit.gaia_data] = fit.given
        /\ sampler.ncall > 0 =>
              /\ \A i \in 1..Len(jitter_vars) :
                    heap[mod.kwargs][jitter_vars[i]]
                      = << fit.given[jitter_vars[i]][1],
                           InflatedError(fit.given[jitter_vars[i]][2],
                                         sampler.theta[n_params + i]) >>
              /\ sampler.value
                   = LogLike(sampler.theta, 1, 2,
                             (1 :> fit.given) @@ (2 :> fit.given)).value

\* C10 witness: an evaluation at the least jitter that followed one at a
\* greater jitter, the error being the one of the least jitter.
C10_Witness ==
    /\ sampler.ncall = 2
    /\ sampler.previous # <<>> /\ sampler.previous[3] = 10
    /\ sampler.theta[n_params + 3] = -10
    /\ heap[mod.kwargs]["RP"][2] = Fin(3)
    /\ fit.given["RP"][2] = Fin(3)

\* ------------------------------------------------------- claims on run_fit

Terminal == {"skipped", "returned", "raised"}

\* C7 as stated: a job whose lookup raised "no match" or "non-finite" is
\* skipped, having started no fit and written no file of a fit, and the
\* batch is not aborted by it: once the loop of main is over, every other
\* job has run to its own terminal state.
C7_SkipDoesNotAbort ==
    \A j \in DOMAIN jobs :
        jobs[j].state = "skipped" =>
            /\ ~jobs[j].fit_started
            /\ jobs[j].files = {}
            /\ main.state # "iterating" =>
                  \A k \in DOMAIN jobs \ {j} : jobs[k].state \in Terminal

\* C7, the part the code keeps: a job whose lookup raises ValueError ends
\* skipped with no fit and no file, and main is aborted only by the
\* exception of a job.
C7_SkipIsCaught ==
    /\ \A j \in DOMAIN jobs :
          (jobs[j].state \in Terminal /\ datasets[j].ra
           /\ GetGaiaData(datasets[j].r, Some(datasets[j].mag),
                          Fin(DefaultMagTol), <<>>).status = "ValueError")
          => (jobs[j].state = "skipped" /\ ~jobs[j].fit_started
              /\ jobs[j].files = {})
    /\ main.state = "aborted" =>
          \E j \in DOMAIN jobs : jobs[j].state = "raised"

============================================================================
